---- MODULE Spec2Model ----
(***************************************************************************)
(* Model of the certificate supply of the boring TLS acceptor:             *)
(*   rama-tls/src/boring/server/acceptor_data.rs                           *)
(*                                                                         *)
(* A TlsCertSource is either InMemory (a fixed key and chain) or           *)
(* InMemoryIssuer (a CA key and certificate plus a moka::sync::Cache of    *)
(* issued leaves keyed by Host).  Handshake tasks call issue_certs         *)
(* concurrently.                                                           *)
(*                                                                         *)
(* Conventions.                                                            *)
(*  - Option<T> is a sequence: None is << >>, Some(x) is <<x>>.            *)
(*  - Rsa::generate and BigNum::rand(159) are idealised as collision free: *)
(*    the n-th draw of the process is represented by the number n (rng).   *)
(*  - The clock counts seconds and advances in ticks of half the cache's   *)
(*    time to live, so an entry is seen below, and exactly at, its expiry. *)
(*  - moka::sync::Cache is modelled by its behaviour: reads skip expired   *)
(*    entries, try_get_with runs one init closure per key at a time and    *)
(*    hands its result to every caller waiting on that key, an insert is   *)
(*    visible at once and logged in the write-op channel, and the          *)
(*    size and expiry eviction happens when a cache operation runs the     *)
(*    pending maintenance tasks.                                           *)
(*  - Three specifications: Spec starts from a built acceptor and runs     *)
(*    issue_certs calls; FairSpec adds that a running call keeps running;  *)
(*    TranslateSpec starts from a ServerConfig and runs try_from on it.    *)
(*  - A byte string handed to a parser is represented by what parsing it   *)
(*    gives: Some(x) for an encoding of x, None for bytes that do not      *)
(*    parse.                                                               *)
(***************************************************************************)
EXTENDS Integers, Sequences, FiniteSets, TLC

(* ------------------------------ bounds --------------------------------- *)
NumTasks == 2
MaxCalls == 3
MaxTicks == 2
NumNames == 1
NumAddrs == 1
MaxConfigSize == 1
MaxStack == 2

(* ------------------------- program constants --------------------------- *)
TimeToLive == 60 * 60 * 24 * 89
DefaultCapacity == 8096

TickLen == TimeToLive \div 2

Tasks == 1..NumTasks

(* Host::Name(domain) | Host::Address(addr) *)
Hosts ==
  [kind : {"Name"}, id : 1..NumNames] \cup [kind : {"Address"}, id : 1..NumAddrs]

Localhost == [kind |-> "Name", id |-> 0]

None == << >>
Some(x) == <<x>>
IsSome(o) == Len(o) = 1
Unwrap(o) == o[1]

ServerNames == {None} \cup {Some(h) : h \in Hosts}

Max(a, b) == IF a >= b THEN a ELSE b

(* --------------------------- certificates ------------------------------ *)
(* The CA certificate of an issuing source (self_signed_server_auth_gen_ca *)
(* for organisation "Acme", or an equivalent static CA).  org is the       *)
(* subject's organisation entry, which a parsed certificate may lack;      *)
(* issuer is the issuer name, signer the private key that signed.          *)
(* X509::subject_name: the organisation and common name entries.           *)
Subject(c) == [org |-> c.org, cn |-> c.cn]
AcmeName == [org |-> Some("Acme"), cn |-> Localhost]

CaKey == 1000
CaCert ==
  [serial |-> 1000, org |-> Some("Acme"), cn |-> Localhost, issuer |-> AcmeName,
   san |-> None, pubkey |-> CaKey, is_ca |-> TRUE, signer |-> CaKey]

(* The chain certificates a static source can hold.                        *)
StaticLeaf ==
  [serial |-> 2001, org |-> Some("Acme"), cn |-> Localhost, issuer |-> AcmeName,
   san |-> None, pubkey |-> 2001, is_ca |-> FALSE, signer |-> 2002]
StaticInter ==
  [serial |-> 2002, org |-> Some("Acme"), cn |-> Localhost, issuer |-> AcmeName,
   san |-> None, pubkey |-> 2002, is_ca |-> TRUE, signer |-> 2003]
StaticRoot ==
  [serial |-> 2003, org |-> Some("Acme"), cn |-> Localhost, issuer |-> AcmeName,
   san |-> None, pubkey |-> 2003, is_ca |-> TRUE, signer |-> 2003]
StaticChains ==
  {<< >>, <<StaticLeaf>>, <<StaticLeaf, StaticInter>>,
   <<StaticLeaf, StaticInter, StaticRoot>>}
StaticKeys == {2001, 2002}

(* SubjectAlternativeName of a leaf: dns(domain) for Host::Name,           *)
(* ip(addr) for Host::Address.                                             *)
SanAlwaysDns(common_name) == Some([type |-> "DNS", id |-> common_name.id])
SanOf(common_name) ==
  IF common_name.kind = "Name"
  THEN Some([type |-> "DNS", id |-> common_name.id])
  ELSE Some([type |-> "IP", id |-> common_name.id])

(* self_signed_server_auth_gen_cert: the n-th key pair and serial draw;    *)
(* the issuer name is the CA's subject name, the signature ca_privkey's.   *)
GenCertFixedSerial(data, ca_cert, ca_privkey, n) ==
  LET common_name ==
        IF IsSome(data.common_name) THEN Unwrap(data.common_name) ELSE Localhost
  IN  [cert |-> [serial |-> 1,
                 org |-> Some(IF IsSome(data.organisation_name)
                              THEN Unwrap(data.organisation_name)
                              ELSE "Anonymous"),
                 cn |-> common_name, issuer |-> Subject(ca_cert),
                 san |-> SanOf(common_name), pubkey |-> n, is_ca |-> FALSE,
                 signer |-> ca_privkey],
       key |-> n]
self_signed_server_auth_gen_cert(data, ca_cert, ca_privkey, n) ==
  LET common_name ==
        IF IsSome(data.common_name) THEN Unwrap(data.common_name) ELSE Localhost
  IN  [cert |-> [serial |-> n,
                 org |-> Some(IF IsSome(data.organisation_name)
                              THEN Unwrap(data.organisation_name)
                              ELSE "Anonymous"),
                 cn |-> common_name, issuer |-> Subject(ca_cert),
                 san |-> SanOf(common_name), pubkey |-> n, is_ca |-> FALSE,
                 signer |-> ca_privkey],
       key |-> n]

(* issue_cert_for_ca: organisation of the CA subject, common name the      *)
(* requested server name, no extra subject alternative names.              *)
issue_cert_without_name(server_name, ca_cert, ca_key, n) ==
  self_signed_server_auth_gen_cert(
    [organisation_name |->
       Some(IF IsSome(ca_cert.org) THEN Unwrap(ca_cert.org) ELSE "Anonymous"),
     common_name |-> None],
    ca_cert, ca_key, n)
issue_cert_self_issued(server_name, ca_cert, ca_key, n) ==
  LET leaf == self_signed_server_auth_gen_cert(
                [organisation_name |-> ca_cert.org, common_name |-> server_name],
                ca_cert, ca_key, n)
  IN  [leaf EXCEPT !.cert.issuer = Subject(leaf.cert), !.cert.signer = n]
issue_cert_for_ca(server_name, ca_cert, ca_key, n) ==
  self_signed_server_auth_gen_cert(
    [organisation_name |->
       Some(IF IsSome(ca_cert.org) THEN Unwrap(ca_cert.org) ELSE "Anonymous"),
     common_name |-> server_name],
    ca_cert, ca_key, n)

(* ---------------------------- the builder ------------------------------ *)
(* SslAcceptorBuilder: the calls made on it, in order, and what they set.  *)
NewBuilder == [cert |-> None, chain |-> << >>, key |-> None, log |-> << >>]

set_certificate(b, c) ==
  [b EXCEPT !.cert = Some(c), !.log = Append(@, "set_certificate")]
add_extra_chain_cert_front(b, c) ==
  [b EXCEPT !.chain = <<c>> \o @, !.log = Append(@, "add_extra_chain_cert")]
add_extra_chain_cert(b, c) ==
  [b EXCEPT !.chain = Append(@, c), !.log = Append(@, "add_extra_chain_cert")]
set_private_key(b, k) ==
  [b EXCEPT !.key = Some(k), !.log = Append(@, "set_private_key")]

(* SSL_CTX_use_PrivateKey refuses a key that is not the private half of    *)
(* the public key of a leaf certificate already set.                       *)
KeyAccepted(b, k) == IsSome(b.cert) => Unwrap(b.cert).pubkey = k

(* SSL_CTX_check_private_key: a certificate and a key are set and the key  *)
(* is the private half of the certificate's public key.                    *)
check_private_key(b) ==
  /\ IsSome(b.cert)
  /\ IsSome(b.key)
  /\ Unwrap(b.cert).pubkey = Unwrap(b.key)

Ok(b) == [ok |-> TRUE, builder |-> Some(b), err |-> None]
Err(e) == [ok |-> FALSE, builder |-> None, err |-> Some(e)]
NoResult == [ok |-> FALSE, builder |-> None, err |-> None]

(* The builder calls of one issue_certs that may report a failure of their *)
(* own (0: none does).  check_private_key also fails on a mismatch.        *)
FailPoints == 0..4

(* add_issued_cert_to_cert_builder: set_certificate, add_extra_chain_cert, *)
(* set_private_key, check_private_key, each ending the call on failure.    *)
add_issued_cert_without_chain(issued_cert, ca_cert, failAt) ==
  LET b1 == set_certificate(NewBuilder, issued_cert.cert)
      b3 == set_private_key(b1, issued_cert.key)
      b4 == [b3 EXCEPT !.log = Append(@, "check_private_key")]
  IN  IF failAt \in 1..4 THEN Err("add_issued_cert_to_cert_builder") ELSE Ok(b4)
add_issued_cert_to_cert_builder(issued_cert, ca_cert, failAt) ==
  LET b1 == set_certificate(NewBuilder, issued_cert.cert)
      b2 == add_extra_chain_cert(b1, ca_cert)
      b3 == set_private_key(b2, issued_cert.key)
      b4 == [b3 EXCEPT !.log = Append(@, "check_private_key")]
  IN  IF failAt = 1 THEN Err("set_certificate")
      ELSE IF failAt = 2 THEN Err("add_extra_chain_cert")
      ELSE IF failAt = 3 \/ ~KeyAccepted(b2, issued_cert.key)
      THEN Err("set_private_key")
      ELSE IF failAt = 4 \/ ~check_private_key(b3) THEN Err("check_private_key")
      ELSE Ok(b4)

(* The InMemory arm of issue_certs: the first chain element is the leaf,   *)
(* the others are extra chain certificates, then the key and its check.    *)
RECURSIVE AddChain(_, _, _)
AddChain(b, chain, i) ==
  IF i > Len(chain) THEN b
  ELSE AddChain(IF i = 1 THEN set_certificate(b, chain[i])
                ELSE add_extra_chain_cert(b, chain[i]),
                chain, i + 1)

issue_certs_in_memory_unchecked(private_key, cert_chain, failAt) ==
  LET b1 == AddChain(NewBuilder, cert_chain, 1)
      b2 == set_private_key(b1, private_key)
      b3 == [b2 EXCEPT !.log = Append(@, "check_private_key")]
  IN  IF failAt = 1 /\ Len(cert_chain) >= 1 THEN Err("set_certificate")
      ELSE IF failAt = 2 /\ Len(cert_chain) >= 2 THEN Err("add_extra_chain_cert")
      ELSE IF failAt = 3 THEN Err("set_private_key")
      ELSE Ok(b3)
issue_certs_in_memory(private_key, cert_chain, failAt) ==
  LET b1 == AddChain(NewBuilder, cert_chain, 1)
      b2 == set_private_key(b1, private_key)
      b3 == [b2 EXCEPT !.log = Append(@, "check_private_key")]
  IN  IF failAt = 1 /\ Len(cert_chain) >= 1 THEN Err("set_certificate")
      ELSE IF failAt = 2 /\ Len(cert_chain) >= 2 THEN Err("add_extra_chain_cert")
      ELSE IF failAt = 3 \/ ~KeyAccepted(b1, private_key)
      THEN Err("set_private_key")
      ELSE IF failAt = 4 \/ ~check_private_key(b2) THEN Err("check_private_key")
      ELSE Ok(b3)

(* ------------------------------ state ---------------------------------- *)
VARIABLES
  kind,         \* TlsCertSourceKind of the acceptor's TlsCertSource
  max_capacity, \* max_capacity of cert_cache
  time_to_live, \* time_to_live of cert_cache, seconds
  config,       \* the TlsConfig fields beside cert_source
  value,        \* the ServerConfig a pending try_from was given
  acceptor_data,\* what try_from returned, None while it is pending
  cert_cache,   \* entries of cert_cache: Host -> [cert, key, at]
  write_op_ch,  \* inserts the cache has logged and not yet maintained
  waiters,      \* keys with an init closure in flight
  rng,          \* key pair and serial draws made so far
  now,          \* clock, seconds
  pc,           \* per task: idle, generating, waiting, woken, issuing, done
  server_name,  \* per task: the server_name argument of its issue_certs call
  got,          \* per task: what try_get_with / issue_cert_for_ca returned
  result,       \* per task: what issue_certs returned
  obs,          \* per task: what the call observed when it looked the key up
  gens,         \* per fill: how often its init closure ran
  calls         \* issue_certs calls made so far

vars ==
  <<kind, max_capacity, time_to_live, config, value, acceptor_data,
    cert_cache, write_op_ch, waiters, rng, now,
    pc, server_name, got, result, obs, gens, calls>>

srcVars == <<kind, max_capacity, time_to_live, config, value, acceptor_data>>
cacheVars == <<cert_cache, write_op_ch, waiters>>

(* ----------------------------- the cache ------------------------------- *)
(* Cache::builder().time_to_live(89 days).max_capacity(size or 8096)       *)
MaxCapacityAsGiven(max_cache_size) == max_cache_size
MaxCapacity(max_cache_size) ==
  IF max_cache_size = 0 THEN DefaultCapacity ELSE max_cache_size

(* An entry written at time `at` is expired once at + ttl <= now.          *)
NeverExpired(e, t) == FALSE
IsExpired(e, t) == e.at + time_to_live <= t

Restrict(c, keys) == [h \in keys |-> c[h]]
InsertOnly(c, h, e) == [x \in {h} |-> e]
Insert(c, h, e) == [x \in (DOMAIN c) \cup {h} |-> IF x = h THEN e ELSE c[x]]

(* Cache::get: a present entry that has not expired.                       *)
NeverLive(c, h, t) == FALSE
Live(c, h, t) == h \in DOMAIN c /\ ~IsExpired(c[h], t)

(* run_pending_tasks: expired entries are removed, and entries are evicted *)
(* until no more than max_capacity remain; the victims are the policy's    *)
(* choice.                                                                 *)
NoEviction(c, cap, t) == {c}
RunPendingTasks(c, cap, t) ==
  LET live == {h \in DOMAIN c : ~IsExpired(c[h], t)}
      need == Max(0, Cardinality(live) - cap)
  IN  {Restrict(c, live \ V) : V \in {S \in SUBSET live : Cardinality(S) = need}}

(* The waiter map of try_get_with: the keys whose init closure is running. *)
NeverWaiter(w, h) == FALSE
HasWaiter(w, h) == h \in w

NoObs ==
  [before |-> None, after |-> None, at |-> 0, generated |-> FALSE,
   fill |-> 0]

InMemory(private_key, cert_chain) ==
  [kind |-> "InMemory", private_key |-> private_key, cert_chain |-> cert_chain,
   ca_key |-> 0, ca_cert |-> CaCert]
InMemoryIssuer(ca_key, ca_cert) ==
  [kind |-> "InMemoryIssuer", private_key |-> 0, cert_chain |-> << >>,
   ca_key |-> ca_key, ca_cert |-> ca_cert]

(* --------------------------- ServerConfig ------------------------------ *)
(* DataEncoding.  A byte string is represented by what parsing it gives:   *)
(* Some(x) is an encoding of x, None is bytes that do not parse.  A PEM    *)
(* text is the list of its blocks.                                         *)
Der(bytes) == [enc |-> "Der", items |-> <<bytes>>]
DerStack(bytes_list) == [enc |-> "DerStack", items |-> bytes_list]
Pem(raw_data) == [enc |-> "Pem", items |-> raw_data]

SeqsUpTo(S, n) == UNION {[1..k -> S] : k \in 0..n}

DataEncodings(blobs) ==
  {Der(b) : b \in blobs}
    \cup {DerStack(l) : l \in SeqsUpTo(blobs, MaxStack)}
    \cup {Pem(l) : l \in SeqsUpTo(blobs, MaxStack)}

CertBlobs == {None} \cup {Some(c) : c \in {StaticLeaf, StaticInter}}
KeyBlobs == {None} \cup {Some(k) : k \in StaticKeys}

SelfSignedDatas ==
  [organisation_name : {None, Some("Acme")},
   common_name : {None} \cup {Some(h) : h \in Hosts}]
ServerAuthDatas ==
  [private_key : DataEncodings(KeyBlobs), cert_chain : DataEncodings(CertBlobs)]

ServerCertIssuerKinds ==
  {[tag |-> "SelfSigned", data |-> d] : d \in SelfSignedDatas}
    \cup {[tag |-> "Single", data |-> d] : d \in ServerAuthDatas}

ServerAuths ==
  {[tag |-> "SelfSigned", data |-> d] : d \in SelfSignedDatas}
    \cup {[tag |-> "Single", data |-> d] : d \in ServerAuthDatas}
    \cup {[tag |-> "CertIssuer", data |-> [kind |-> k, max_cache_size |-> n]] :
            k \in ServerCertIssuerKinds, n \in 0..MaxConfigSize}

ClientVerifyModes ==
  {[tag |-> "Auto"], [tag |-> "Disable"]}
    \cup {[tag |-> "ClientAuth", data |-> e] : e \in DataEncodings(CertBlobs)}

PlainServerAuths ==
  {[tag |-> "SelfSigned",
    data |-> [organisation_name |-> None, common_name |-> None]],
   [tag |-> "Single",
    data |-> [private_key |-> Der(Some(2001)),
              cert_chain |-> Der(Some(StaticLeaf))]]}

(* The configurations try_from is given: every server_auth without client  *)
(* authentication, and every client_verify_mode with a plain server_auth.  *)
ServerConfigs ==
  {[client_verify_mode |-> [tag |-> "Auto"], server_auth |-> a,
    application_layer_protocol_negotiation |-> None,
    key_logger |-> "Disabled", protocol_versions |-> None] :
     a \in ServerAuths}
    \cup
  {[client_verify_mode |-> m, server_auth |-> a,
    application_layer_protocol_negotiation |-> p,
    key_logger |-> "Disabled", protocol_versions |-> None] :
     m \in ClientVerifyModes, a \in PlainServerAuths,
     p \in {None, Some(<<"h2">>)}}

(* Result<T, OpaqueError> of a parsing step.                               *)
Parsed(v) == [ok |-> TRUE, val |-> v, err |-> None]
ParseErr(e) == [ok |-> FALSE, val |-> << >>, err |-> Some(e)]

X509_from_der(bytes) ==
  IF IsSome(bytes) THEN Parsed(Unwrap(bytes)) ELSE ParseErr("parse x509 from DER")
(* X509::stack_from_pem: every certificate block of the text, in order; a  *)
(* text without a block gives the empty list.                              *)
X509_stack_from_pem(raw_data) ==
  IF \A i \in 1..Len(raw_data) : IsSome(raw_data[i])
  THEN Parsed([i \in 1..Len(raw_data) |-> Unwrap(raw_data[i])])
  ELSE ParseErr("parse x509 from PEM")
private_key_from_der(bytes) ==
  IF IsSome(bytes) THEN Parsed(Unwrap(bytes))
  ELSE ParseErr("parse private key from DER")
(* PKey::private_key_from_pem: the first block of the text.                *)
private_key_from_pem(raw_data) ==
  IF Len(raw_data) >= 1 /\ IsSome(raw_data[1]) THEN Parsed(Unwrap(raw_data[1]))
  ELSE ParseErr("parse private key from PEM")

(* The three arms decoding a certificate list: lines 152-168, 182-198 and  *)
(* 242-258.                                                                *)
decode_cert_chain(data) ==
  CASE data.enc = "Der" ->
         LET r == X509_from_der(data.items[1])
         IN  IF r.ok THEN Parsed(<<r.val>>) ELSE r
    [] data.enc = "DerStack" ->
         IF \A i \in 1..Len(data.items) : X509_from_der(data.items[i]).ok
         THEN Parsed([i \in 1..Len(data.items) |->
                        X509_from_der(data.items[i]).val])
         ELSE ParseErr("parse x509 from DER")
    [] data.enc = "Pem" -> X509_stack_from_pem(data.items)

(* The three arms decoding a private key: lines 201-212 and 262-283.       *)
decode_private_key(data) ==
  CASE data.enc = "Der" -> private_key_from_der(data.items[1])
    [] data.enc = "DerStack" ->
         IF data.items = << >> THEN ParseErr("get first private key raw data")
         ELSE private_key_from_der(data.items[1])
    [] data.enc = "Pem" -> private_key_from_pem(data.items)

(* client_cert_chain of try_from: lines 147-169.                           *)
decode_client_cert_chain(client_verify_mode) ==
  IF client_verify_mode.tag \in {"Auto", "Disable"} THEN Parsed(None)
  ELSE LET r == decode_cert_chain(client_verify_mode.data)
       IN  IF r.ok THEN Parsed(Some(r.val)) ELSE r

(* Vec::pop: the last element, if there is one.                            *)
pop_front(v) == IF v = << >> THEN None ELSE Some(v[1])
pop(v) == IF v = << >> THEN None ELSE Some(v[Len(v)])

(* self_signed_server_auth_gen_ca: the n-th key pair and serial draw; the  *)
(* certificate is its own issuer and is marked as a CA.                    *)
self_signed_server_auth_gen_ca(data, n) ==
  LET common_name ==
        IF IsSome(data.common_name) THEN Unwrap(data.common_name) ELSE Localhost
  IN  [cert |-> [serial |-> n,
                 org |-> Some(IF IsSome(data.organisation_name)
                              THEN Unwrap(data.organisation_name)
                              ELSE "Anonymous"),
                 cn |-> common_name,
                 issuer |-> [org |-> Some(IF IsSome(data.organisation_name)
                                          THEN Unwrap(data.organisation_name)
                                          ELSE "Anonymous"),
                             cn |-> common_name],
                 san |-> None, pubkey |-> n, is_ca |-> TRUE, signer |-> n],
       key |-> n]

(* self_signed_server_auth: the CA, then the leaf signed by it.            *)
self_signed_server_auth_ca_first(data, caOk, leafOk, n) ==
  LET ca == self_signed_server_auth_gen_ca(data, n + 1)
      leaf == self_signed_server_auth_gen_cert(data, ca.cert, ca.key, n + 2)
  IN  IF ~caOk THEN ParseErr("self-signed CA")
      ELSE IF ~leafOk THEN ParseErr("self-signed cert using self-signed CA")
      ELSE Parsed([cert_chain |-> <<ca.cert, leaf.cert>>,
                   private_key |-> leaf.key])
self_signed_server_auth(data, caOk, leafOk, n) ==
  LET ca == self_signed_server_auth_gen_ca(data, n + 1)
      leaf == self_signed_server_auth_gen_cert(data, ca.cert, ca.key, n + 2)
  IN  IF ~caOk THEN ParseErr("self-signed CA")
      ELSE IF ~leafOk THEN ParseErr("self-signed cert using self-signed CA")
      ELSE Parsed([cert_chain |-> <<leaf.cert, ca.cert>>,
                   private_key |-> leaf.key])

self_signed_server_ca(data, caOk, n) ==
  IF caOk THEN Parsed(self_signed_server_auth_gen_ca(data, n + 1))
  ELSE ParseErr("CA: self-signed ca")

NoSource ==
  [kind |-> "None", private_key |-> 0, cert_chain |-> << >>,
   ca_key |-> 0, ca_cert |-> CaCert]
PlainConfig ==
  [alpn_protocols |-> None, keylog_intent |-> "Disabled",
   protocol_versions |-> None, client_cert_chain |-> None]

(* cert_source_kind of try_from: lines 171-293.                            *)
cert_source_kind(server_auth, caOk, leafOk, n) ==
  CASE server_auth.tag = "SelfSigned" ->
         LET r == self_signed_server_auth(server_auth.data, caOk, leafOk, n)
         IN  IF r.ok
             THEN Parsed(InMemory(r.val.private_key, r.val.cert_chain))
             ELSE r
    [] server_auth.tag = "Single" ->
         LET cert_chain == decode_cert_chain(server_auth.data.cert_chain)
             private_key == decode_private_key(server_auth.data.private_key)
         IN  IF ~cert_chain.ok THEN cert_chain
             ELSE IF ~private_key.ok THEN private_key
             ELSE Parsed(InMemory(private_key.val, cert_chain.val))
    [] server_auth.tag = "CertIssuer" /\ server_auth.data.kind.tag = "SelfSigned" ->
         LET r == self_signed_server_ca(server_auth.data.kind.data, caOk, n)
         IN  IF r.ok THEN Parsed(InMemoryIssuer(r.val.key, r.val.cert)) ELSE r
    [] server_auth.tag = "CertIssuer" /\ server_auth.data.kind.tag = "Single" ->
         LET data == server_auth.data.kind.data
             cert_chain == decode_cert_chain(data.cert_chain)
             ca_cert == pop(cert_chain.val)
             ca_key == decode_private_key(data.private_key)
         IN  IF ~cert_chain.ok THEN cert_chain
             ELSE IF ca_cert = None
             THEN ParseErr("pop CA Cert (last) from stack")
             ELSE IF ~ca_key.ok THEN ca_key
             ELSE Parsed(InMemoryIssuer(ca_key.val, Unwrap(ca_cert)))

(* The key pair and serial draws cert_source_kind makes.                   *)
Draws(server_auth, caOk, leafOk) ==
  CASE server_auth.tag = "SelfSigned" ->
         IF ~caOk THEN 0 ELSE IF ~leafOk THEN 1 ELSE 2
    [] server_auth.tag = "CertIssuer" /\ server_auth.data.kind.tag = "SelfSigned" ->
         IF caOk THEN 1 ELSE 0
    [] OTHER -> 0

(* TryFrom<ServerConfig> for TlsAcceptorData: lines 143-307.               *)
try_from(v, caOk, leafOk, n) ==
  LET client_cert_chain == decode_client_cert_chain(v.client_verify_mode)
      source == cert_source_kind(v.server_auth, caOk, leafOk, n)
      issuing == v.server_auth.tag = "CertIssuer"
  IN  IF ~client_cert_chain.ok
      THEN [ok |-> FALSE, err |-> client_cert_chain.err, kind |-> NoSource,
            max_capacity |-> 0, time_to_live |-> 0, config |-> PlainConfig,
            draws |-> 0]
      ELSE IF ~source.ok
      THEN [ok |-> FALSE, err |-> source.err, kind |-> NoSource,
            max_capacity |-> 0, time_to_live |-> 0, config |-> PlainConfig,
            draws |-> Draws(v.server_auth, caOk, leafOk)]
      ELSE [ok |-> TRUE, err |-> None, kind |-> source.val,
            max_capacity |->
              IF issuing THEN MaxCapacity(v.server_auth.data.max_cache_size)
              ELSE 0,
            time_to_live |-> IF issuing THEN TimeToLive ELSE 0,
            config |->
              [alpn_protocols |-> v.application_layer_protocol_negotiation,
               keylog_intent |-> v.key_logger,
               protocol_versions |-> v.protocol_versions,
               client_cert_chain |-> client_cert_chain.val],
            draws |-> Draws(v.server_auth, caOk, leafOk)]

Built == Some([ok |-> TRUE, err |-> None])

Init ==
  /\ \/ /\ kind \in {InMemory(k, c) : k \in StaticKeys, c \in StaticChains}
        /\ max_capacity = 0
        /\ time_to_live = 0
     \/ /\ kind = InMemoryIssuer(CaKey, CaCert)
        /\ max_capacity \in {MaxCapacity(n) : n \in 0..MaxConfigSize}
        /\ time_to_live = TimeToLive
  /\ config = PlainConfig
  /\ value = None
  /\ acceptor_data = Built
  /\ cert_cache = << >>
  /\ write_op_ch = 0
  /\ waiters = {}
  /\ rng = 0
  /\ now = 0
  /\ pc = [t \in Tasks |-> "idle"]
  /\ server_name = [t \in Tasks |-> None]
  /\ got = [t \in Tasks |-> None]
  /\ result = [t \in Tasks |-> NoResult]
  /\ obs = [t \in Tasks |-> NoObs]
  /\ gens = << >>
  /\ calls = 0

Issued(i) == [issued |-> Some(i), err |-> None]
Failed(e) == [issued |-> None, err |-> Some(e)]

Entry(c, h) == IF h \in DOMAIN c THEN Some(c[h]) ELSE None

(* The maintenance a cache operation may run before it reads.              *)
Housekeep(hk) ==
  IF hk THEN RunPendingTasks(cert_cache, max_capacity, now) ELSE {cert_cache}

(* ----------------------------- actions --------------------------------- *)
(* issue_certs on an InMemory source: lines 86-107.                        *)
IssueInMemory(t, sn, failAt) ==
  /\ pc[t] = "idle"
  /\ calls < MaxCalls
  /\ kind.kind = "InMemory"
  /\ calls' = calls + 1
  /\ server_name' = [server_name EXCEPT ![t] = sn]
  /\ result' = [result EXCEPT ![t] =
                  issue_certs_in_memory(kind.private_key, kind.cert_chain, failAt)]
  /\ pc' = [pc EXCEPT ![t] = "done"]
  /\ UNCHANGED <<srcVars, cacheVars, rng, now, got, obs, gens>>

(* issue_certs(None) on an issuer: issue_cert_for_ca starts, line 128.     *)
IssueFresh(t) ==
  /\ pc[t] = "idle"
  /\ calls < MaxCalls
  /\ kind.kind = "InMemoryIssuer"
  /\ calls' = calls + 1
  /\ server_name' = [server_name EXCEPT ![t] = None]
  /\ obs' = [obs EXCEPT ![t] = [NoObs EXCEPT !.generated = TRUE, !.at = now]]
  /\ pc' = [pc EXCEPT ![t] = "issuing"]
  /\ UNCHANGED <<srcVars, cacheVars, rng, now, got, result, gens>>

(* ... it ends, and add_issued_cert_to_cert_builder runs: lines 128-134.   *)
FreshDone(t, genOk, failAt) ==
  /\ pc[t] = "issuing"
  /\ IF genOk
     THEN LET issued_cert == issue_cert_for_ca(None, kind.ca_cert, kind.ca_key, rng + 1)
          IN  /\ rng' = rng + 1
              /\ got' = [got EXCEPT ![t] = Some(Issued(issued_cert))]
              /\ result' = [result EXCEPT ![t] =
                   add_issued_cert_to_cert_builder(issued_cert, kind.ca_cert, failAt)]
     ELSE /\ rng' = rng
          /\ got' = [got EXCEPT ![t] = Some(Failed(0))]
          /\ result' = [result EXCEPT ![t] = Err("issue_cert_for_ca")]
  /\ pc' = [pc EXCEPT ![t] = "done"]
  /\ UNCHANGED <<srcVars, cacheVars, now, server_name, obs, gens, calls>>

(* issue_certs(Some(host)): try_get_with finds a live entry, lines 115-125.*)
TryGetHit(t, h, hk, failAt) ==
  /\ pc[t] = "idle"
  /\ calls < MaxCalls
  /\ kind.kind = "InMemoryIssuer"
  /\ \E c \in Housekeep(hk) :
       /\ Live(c, h, now)
       /\ cert_cache' = c
       /\ LET issued_cert == [cert |-> c[h].cert, key |-> c[h].key]
              r == add_issued_cert_to_cert_builder(issued_cert, kind.ca_cert, failAt)
          IN  /\ got' = [got EXCEPT ![t] = Some(Issued(issued_cert))]
              /\ result' = [result EXCEPT ![t] = r]
       /\ obs' = [obs EXCEPT ![t] =
                    [NoObs EXCEPT !.before = Entry(cert_cache, h),
                                  !.after = Entry(c, h), !.at = now]]
  /\ write_op_ch' = IF hk THEN 0 ELSE write_op_ch
  /\ calls' = calls + 1
  /\ server_name' = [server_name EXCEPT ![t] = Some(h)]
  /\ pc' = [pc EXCEPT ![t] = "done"]
  /\ UNCHANGED <<srcVars, waiters, rng, now, gens>>

(* The fill in flight for h, as seen from outside the cache: the fill of   *)
(* a task that is generating for h.                                        *)
FillInFlight(h) ==
  IF \E u \in Tasks : pc[u] = "generating" /\ server_name[u] = Some(h)
  THEN obs[CHOOSE u \in Tasks : pc[u] = "generating" /\ server_name[u] = Some(h)].fill
  ELSE 0

(* ... misses and no init closure runs for the key: this call runs it.     *)
TryGetInit(t, h, hk) ==
  /\ pc[t] = "idle"
  /\ calls < MaxCalls
  /\ kind.kind = "InMemoryIssuer"
  /\ \E c \in Housekeep(hk) :
       /\ ~Live(c, h, now)
       /\ ~HasWaiter(waiters, h)
       /\ cert_cache' = c
       /\ LET f == IF FillInFlight(h) # 0 THEN FillInFlight(h) ELSE Len(gens) + 1
          IN  /\ obs' = [obs EXCEPT ![t] =
                    [NoObs EXCEPT !.before = Entry(cert_cache, h),
                                  !.after = Entry(c, h), !.at = now,
                                  !.generated = TRUE, !.fill = f]]
              /\ gens' = IF f > Len(gens)
                         THEN Append(gens, 1)
                         ELSE [gens EXCEPT ![f] = @ + 1]
  /\ write_op_ch' = IF hk THEN 0 ELSE write_op_ch
  /\ waiters' = waiters \cup {h}
  /\ calls' = calls + 1
  /\ server_name' = [server_name EXCEPT ![t] = Some(h)]
  /\ pc' = [pc EXCEPT ![t] = "generating"]
  /\ UNCHANGED <<srcVars, rng, now, got, result>>

(* ... misses while the key's init closure runs: this call waits for it.   *)
TryGetWait(t, h, hk) ==
  /\ pc[t] = "idle"
  /\ calls < MaxCalls
  /\ kind.kind = "InMemoryIssuer"
  /\ \E c \in Housekeep(hk) :
       /\ ~Live(c, h, now)
       /\ HasWaiter(waiters, h)
       /\ cert_cache' = c
       /\ obs' = [obs EXCEPT ![t] =
                    [NoObs EXCEPT !.before = Entry(cert_cache, h),
                                  !.after = Entry(c, h), !.at = now,
                                  !.fill = FillInFlight(h)]]
  /\ write_op_ch' = IF hk THEN 0 ELSE write_op_ch
  /\ calls' = calls + 1
  /\ server_name' = [server_name EXCEPT ![t] = Some(h)]
  /\ pc' = [pc EXCEPT ![t] = "waiting"]
  /\ UNCHANGED <<srcVars, waiters, rng, now, got, result, gens>>

(* What try_get_with leaves in the cache when the init closure of key h    *)
(* ends with out at time t: the value of an Ok, nothing of an Err.         *)
AfterFillClearing(c, h, out, t) ==
  IF IsSome(out.issued)
  THEN Insert(c, h, [cert |-> Unwrap(out.issued).cert,
                     key |-> Unwrap(out.issued).key, at |-> t])
  ELSE << >>
AfterFill(c, h, out, t) ==
  IF IsSome(out.issued)
  THEN Insert(c, h, [cert |-> Unwrap(out.issued).cert,
                     key |-> Unwrap(out.issued).key, at |-> t])
  ELSE c

(* The calls parked on the waiter of key h.                                *)
WaitingOnNone(h) == {}
WaitingOn(h) == {u \in Tasks : pc[u] = "waiting" /\ server_name[u] = Some(h)}

(* The init closure of try_get_with ends (issue_cert_for_ca, line 117):    *)
(* on Ok the entry is inserted, on Err nothing is; the key's waiter goes   *)
(* and every call waiting on it is handed the same value or error.  The    *)
(* initialising call goes on to add_issued_cert_to_cert_builder.           *)
InitDone(t, genOk, failAt) ==
  /\ pc[t] = "generating"
  /\ LET h == Unwrap(server_name[t])
         issued_cert == issue_cert_for_ca(Some(h), kind.ca_cert, kind.ca_key, rng + 1)
         out == IF genOk THEN Issued(issued_cert) ELSE Failed(obs[t].fill)
         r == IF genOk
              THEN add_issued_cert_to_cert_builder(issued_cert, kind.ca_cert, failAt)
              ELSE Err("fresh issue of cert + insert")
         woken == WaitingOn(h)
     IN  /\ rng' = IF genOk THEN rng + 1 ELSE rng
         /\ cert_cache' = AfterFill(cert_cache, h, out, now)
         /\ write_op_ch' = IF genOk THEN write_op_ch + 1 ELSE write_op_ch
         /\ waiters' = waiters \ {h}
         /\ got' = [u \in Tasks |->
                      IF u = t \/ u \in woken THEN Some(out) ELSE got[u]]
         /\ pc' = [u \in Tasks |->
                     IF u = t THEN "done"
                     ELSE IF u \in woken THEN "woken" ELSE pc[u]]
         /\ result' = [result EXCEPT ![t] = r]
  /\ UNCHANGED <<srcVars, now, server_name, obs, gens, calls>>

(* A call that waited goes on with what it was handed: lines 119-125.      *)
Resume(t, failAt) ==
  /\ pc[t] = "woken"
  /\ LET out == Unwrap(got[t])
         r == IF IsSome(out.issued)
              THEN add_issued_cert_to_cert_builder(Unwrap(out.issued),
                                                   kind.ca_cert, failAt)
              ELSE Err("fresh issue of cert + insert")
     IN  /\ result' = [result EXCEPT ![t] = r]
  /\ pc' = [pc EXCEPT ![t] = "done"]
  /\ UNCHANGED <<srcVars, cacheVars, rng, now, server_name, got, obs, gens, calls>>

(* The handshake takes the result; the task is free for another call.      *)
Return(t) ==
  /\ pc[t] = "done"
  /\ pc' = [pc EXCEPT ![t] = "idle"]
  /\ server_name' = [server_name EXCEPT ![t] = None]
  /\ got' = [got EXCEPT ![t] = None]
  /\ result' = [result EXCEPT ![t] = NoResult]
  /\ obs' = [obs EXCEPT ![t] = NoObs]
  /\ UNCHANGED <<srcVars, cacheVars, rng, now, gens, calls>>

(* Time passes.                                                            *)
Tick ==
  /\ now + TickLen <= MaxTicks * TickLen
  /\ now' = now + TickLen
  /\ UNCHANGED <<srcVars, cacheVars, rng, pc, server_name, got, result, obs,
                 gens, calls>>

Next ==
  \/ \E t \in Tasks, sn \in ServerNames, failAt \in FailPoints :
       IssueInMemory(t, sn, failAt)
  \/ \E t \in Tasks : IssueFresh(t)
  \/ \E t \in Tasks, genOk \in BOOLEAN, failAt \in FailPoints :
       FreshDone(t, genOk, failAt)
  \/ \E t \in Tasks, h \in Hosts, hk \in BOOLEAN, failAt \in FailPoints :
       TryGetHit(t, h, hk, failAt)
  \/ \E t \in Tasks, h \in Hosts, hk \in BOOLEAN : TryGetInit(t, h, hk)
  \/ \E t \in Tasks, h \in Hosts, hk \in BOOLEAN : TryGetWait(t, h, hk)
  \/ \E t \in Tasks, genOk \in BOOLEAN, failAt \in FailPoints :
       InitDone(t, genOk, failAt)
  \/ \E t \in Tasks, failAt \in FailPoints : Resume(t, failAt)
  \/ \E t \in Tasks : Return(t)
  \/ Tick

Spec == Init /\ [][Next]_vars

(* issue_certs has no await point and try_get_with is the synchronous      *)
(* cache's: a call that runs the init closure, or was handed its outcome,  *)
(* goes on until it returns.  The cache of the issuing source has the      *)
(* default capacity here.                                                  *)
FairInit == Init /\ max_capacity \in {0, DefaultCapacity}

FairSpec ==
  /\ FairInit
  /\ [][Next]_vars
  /\ \A t \in Tasks :
       /\ WF_vars(\E genOk \in BOOLEAN, failAt \in FailPoints :
                    InitDone(t, genOk, failAt))
       /\ WF_vars(\E failAt \in FailPoints : Resume(t, failAt))

(* ---------------------------- construction ----------------------------- *)
(* A ServerConfig is about to be translated.                               *)
TranslateInit ==
  /\ value \in {Some(v) : v \in ServerConfigs}
  /\ acceptor_data = None
  /\ kind = NoSource
  /\ max_capacity = 0
  /\ time_to_live = 0
  /\ config = PlainConfig
  /\ cert_cache = << >>
  /\ write_op_ch = 0
  /\ waiters = {}
  /\ rng = 0
  /\ now = 0
  /\ pc = [t \in Tasks |-> "idle"]
  /\ server_name = [t \in Tasks |-> None]
  /\ got = [t \in Tasks |-> None]
  /\ result = [t \in Tasks |-> NoResult]
  /\ obs = [t \in Tasks |-> NoObs]
  /\ gens = << >>
  /\ calls = 0

(* TlsAcceptorData::try_from(value): lines 146-306.                        *)
TryFrom(caOk, leafOk) ==
  /\ IsSome(value)
  /\ acceptor_data = None
  /\ LET r == try_from(Unwrap(value), caOk, leafOk, rng)
     IN  /\ acceptor_data' = Some([ok |-> r.ok, err |-> r.err])
         /\ kind' = r.kind
         /\ max_capacity' = r.max_capacity
         /\ time_to_live' = r.time_to_live
         /\ config' = r.config
         /\ rng' = rng + r.draws
  /\ UNCHANGED <<value, cacheVars, now, pc, server_name, got, result, obs,
                 gens, calls>>

TranslateNext == \E caOk, leafOk \in BOOLEAN : TryFrom(caOk, leafOk)

TranslateSpec == TranslateInit /\ [][TranslateNext]_vars

TypeOK ==
  /\ kind.kind \in {"InMemory", "InMemoryIssuer"}
  /\ waiters \subseteq Hosts
  /\ DOMAIN cert_cache \subseteq Hosts
  /\ \A t \in Tasks :
       pc[t] \in {"idle", "generating", "waiting", "woken", "issuing", "done"}

(* ============================ properties =============================== *)
Done(t) == pc[t] = "done"
Sni(t) == IsSome(server_name[t])
Host(t) == Unwrap(server_name[t])
Builder(t) == Unwrap(result[t].builder)
IsIssuer == kind.kind = "InMemoryIssuer"
Generating(h) == {t \in Tasks : pc[t] = "generating" /\ server_name[t] = Some(h)}
(* An entry is within its time to live at time t.                          *)
Fresh(e, t) == t < e.at + TimeToLive
IssuedOf(e) == Issued([cert |-> e.cert, key |-> e.key])

(* C1: for every hostname key at most one leaf generation run as that      *)
(* key's cache fill is in flight, however many calls ask for the key.      *)
C1_SingleFlight ==
  \A h \in Hosts : Cardinality(Generating(h)) <= 1

C1_Witness ==
  \E t, u \in Tasks :
    /\ t # u
    /\ pc[t] = "generating"
    /\ pc[u] = "waiting"
    /\ server_name[t] = server_name[u]

(* C2: the calls that overlap one fill of an uncached hostname share a     *)
(* single generation, and each of them is handed the same certificate and  *)
(* key, or the same error.                                                 *)
C2_SharedOutcome ==
  /\ \A f \in 1..Len(gens) : gens[f] = 1
  /\ \A t, u \in Tasks :
       (/\ obs[t].fill # 0
        /\ obs[t].fill = obs[u].fill
        /\ IsSome(got[t])
        /\ IsSome(got[u]))
       => got[t] = got[u]

C2_Witness ==
  \E t, u \in Tasks :
    /\ t # u
    /\ obs[t].fill # 0
    /\ obs[t].fill = obs[u].fill
    /\ obs[t].generated
    /\ ~obs[u].generated
    /\ IsSome(got[t])
    /\ got[u] = got[t]
    /\ IsSome(Unwrap(got[u]).err)

(* C3: a call that finds the hostname's entry present and within its time  *)
(* to live returns that entry's certificate and runs no generation.        *)
C3_CacheHit ==
  \A t \in Tasks :
    (/\ Done(t)
     /\ Sni(t)
     /\ IsSome(obs[t].after)
     /\ Fresh(Unwrap(obs[t].after), obs[t].at))
    => /\ ~obs[t].generated
       /\ obs[t].fill = 0
       /\ got[t] = Some(IssuedOf(Unwrap(obs[t].after)))
       /\ result[t].ok => Builder(t).cert = Some(Unwrap(obs[t].after).cert)

C3_Witness ==
  \E t \in Tasks :
    /\ Done(t)
    /\ Sni(t)
    /\ IsSome(obs[t].after)
    /\ Unwrap(obs[t].after).at < obs[t].at
    /\ Fresh(Unwrap(obs[t].after), obs[t].at)
    /\ result[t].ok
    /\ Builder(t).cert = Some(Unwrap(obs[t].after).cert)

(* C4: no negative caching: when a call for hostname h returns an error of *)
(* its own (generation, certificate build or the key check), no stored     *)
(* result for h is left that the next call for h would return instead of   *)
(* generating anew.                                                        *)
C4_NoNegativeCaching ==
  [][\A t \in Tasks :
       (/\ IsIssuer
        /\ pc[t] # "done"
        /\ pc'[t] = "done"
        /\ IsSome(server_name'[t])
        /\ ~result'[t].ok
        /\ ~(pc[t] = "woken" /\ IsSome(Unwrap(got[t]).err)))
       => ~(/\ Unwrap(server_name'[t]) \in DOMAIN cert_cache'
            /\ Fresh(cert_cache'[Unwrap(server_name'[t])], now'))]_vars

(* C5: a call without a server name never touches the cache, and what it   *)
(* returns is a newly generated leaf, not a certificate the cache holds.   *)
C5_NoSniFrame ==
  [][\A t \in Tasks :
       (pc[t] # pc'[t] /\ (pc[t] = "issuing" \/ pc'[t] = "issuing"))
       => /\ cert_cache' = cert_cache
          /\ write_op_ch' = write_op_ch
          /\ waiters' = waiters
          /\ (pc[t] = "issuing" /\ result'[t].ok)
             => /\ rng' = rng + 1
                /\ \A h \in DOMAIN cert_cache' :
                     cert_cache'[h].cert.serial
                       # Unwrap(Unwrap(result'[t].builder).cert).serial]_vars

C5_Witness ==
  \E t \in Tasks :
    /\ Done(t)
    /\ IsIssuer
    /\ ~Sni(t)
    /\ result[t].ok
    /\ DOMAIN cert_cache # {}

(* C6 as stated: the cache never holds more entries than its capacity.     *)
C6_Original ==
  Cardinality(DOMAIN cert_cache) <= max_capacity

(* C6, amended: the cache holds no more entries than its capacity plus the *)
(* inserts it has not yet maintained; after maintenance it is in bound.    *)
C6_Amended ==
  Cardinality(DOMAIN cert_cache) <= max_capacity + write_op_ch

C6_Witness ==
  /\ max_capacity = 1
  /\ write_op_ch = 0
  /\ Cardinality(DOMAIN cert_cache) = 1
  /\ \E t \in Tasks :
       /\ Done(t)
       /\ Sni(t)
       /\ obs[t].generated
       /\ result[t].ok
       /\ Host(t) \notin DOMAIN cert_cache

(* C7: a call that finds the hostname's entry past its time to live takes  *)
(* part in a new generation and returns a certificate whose serial number  *)
(* differs from the expired one's.                                         *)
C7_Expiry ==
  \A t \in Tasks :
    (/\ Done(t)
     /\ Sni(t)
     /\ IsSome(obs[t].before)
     /\ ~Fresh(Unwrap(obs[t].before), obs[t].at))
    => /\ obs[t].fill # 0
       /\ got[t] # Some(IssuedOf(Unwrap(obs[t].before)))
       /\ result[t].ok =>
            Unwrap(Builder(t).cert).serial # Unwrap(obs[t].before).cert.serial

C7_Witness ==
  \E t \in Tasks :
    /\ Done(t)
    /\ Sni(t)
    /\ IsSome(obs[t].before)
    /\ ~Fresh(Unwrap(obs[t].before), obs[t].at)
    /\ obs[t].generated
    /\ result[t].ok
    /\ Unwrap(Builder(t).cert).serial > Unwrap(obs[t].before).cert.serial

(* The subject alternative name a leaf for host h has to carry.            *)
SanFor(h) ==
  Some([type |-> IF h.kind = "Name" THEN "DNS" ELSE "IP", id |-> h.id])

(* C8: certificates an issuer returns for two distinct hostnames have       *)
(* distinct serial numbers, and each carries the subject alternative name  *)
(* of its own hostname: a DNS entry for a domain, an IP entry for an       *)
(* address.                                                                *)
C8_DistinctHosts ==
  \A t, u \in Tasks :
    (/\ IsIssuer
     /\ Done(t) /\ Sni(t) /\ result[t].ok
     /\ Done(u) /\ Sni(u) /\ result[u].ok
     /\ Host(t) # Host(u))
    => /\ Unwrap(Builder(t).cert).serial # Unwrap(Builder(u).cert).serial
       /\ Unwrap(Builder(t).cert).san = SanFor(Host(t))
       /\ Unwrap(Builder(u).cert).san = SanFor(Host(u))

C8_Witness ==
  \E t, u \in Tasks :
    /\ IsIssuer
    /\ Done(t) /\ Sni(t) /\ result[t].ok
    /\ Done(u) /\ Sni(u) /\ result[u].ok
    /\ Host(t).kind = "Name"
    /\ Host(u).kind = "Address"
    /\ Unwrap(Builder(t).cert).san = SanFor(Host(t))
    /\ Unwrap(Builder(u).cert).san = SanFor(Host(u))

(* A step of a call for a hostname other than h1.                          *)
StepOfOther(h1) ==
  \E t \in Tasks :
    /\ pc'[t] # pc[t]
    /\ pc'[t] # "idle"
    /\ IsSome(server_name'[t])
    /\ server_name'[t] # Some(h1)

LiveKeys == {h \in DOMAIN cert_cache : Fresh(cert_cache[h], now)}

(* C9 as stated: resolving another hostname leaves the entry of h1 as it   *)
(* was.                                                                    *)
C9_Original ==
  [][\A h1 \in LiveKeys :
       StepOfOther(h1)
       => h1 \in DOMAIN cert_cache' /\ cert_cache'[h1] = cert_cache[h1]]_vars

(* C9, amended: resolving another hostname never alters the entry of h1;   *)
(* it leaves it as it was, or, only when the cache is over its capacity,   *)
(* evicts it.                                                              *)
C9_Amended ==
  [][\A h1 \in LiveKeys :
       StepOfOther(h1)
       => \/ h1 \in DOMAIN cert_cache' /\ cert_cache'[h1] = cert_cache[h1]
          \/ /\ h1 \notin DOMAIN cert_cache'
             /\ Cardinality(LiveKeys) > max_capacity]_vars

C9_Witness ==
  \E t \in Tasks, h1, h2 \in DOMAIN cert_cache :
    /\ h1 # h2
    /\ Done(t)
    /\ server_name[t] = Some(h1)
    /\ obs[t].after = Some(cert_cache[h1])
    /\ cert_cache[h2].cert.serial > cert_cache[h1].cert.serial
    /\ obs[t].at > cert_cache[h2].at
    /\ result[t].ok
    /\ Builder(t).cert = Some(cert_cache[h1].cert)

(* C10: a call returns Ok only with a builder on which the leaf was set,   *)
(* the chain certificates were appended, the key was set and the key check *)
(* then passed, in that order; otherwise it returns Err without a builder. *)
C10_CheckedBuilder ==
  \A t \in Tasks :
    Done(t) =>
      IF result[t].ok
      THEN LET b == Builder(t)
               n == Len(b.log)
           IN  /\ n >= 3
               /\ b.log[1] = "set_certificate"
               /\ \A i \in 2..(n - 2) : b.log[i] = "add_extra_chain_cert"
               /\ b.log[n - 1] = "set_private_key"
               /\ b.log[n] = "check_private_key"
               /\ Len(b.chain) = n - 3
               /\ IsSome(b.cert)
               /\ IsSome(b.key)
               /\ Unwrap(b.cert).pubkey = Unwrap(b.key)
               /\ IF IsIssuer
                  THEN b.chain = <<kind.ca_cert>>
                  ELSE /\ Len(kind.cert_chain) = Len(b.chain) + 1
                       /\ b.cert = Some(kind.cert_chain[1])
                       /\ b.key = Some(kind.private_key)
      ELSE /\ result[t].builder = None
           /\ IsSome(result[t].err)

C10_Witness ==
  \E t \in Tasks :
    /\ Done(t)
    /\ result[t].ok
    /\ ~IsIssuer
    /\ Len(kind.cert_chain) = 2
    /\ Builder(t).chain = <<kind.cert_chain[2]>>
    /\ Builder(t).log[Len(Builder(t).log)] = "check_private_key"

(* --------------------- properties of construction ---------------------- *)
Translated == IsSome(value) /\ IsSome(acceptor_data)
Accepted == Translated /\ Unwrap(acceptor_data).ok
Refused == Translated /\ ~Unwrap(acceptor_data).ok /\ kind = NoSource
ServerAuthOf == Unwrap(value).server_auth
ClientModeOf == Unwrap(value).client_verify_mode
(* The data of a Single server auth, or of a CertIssuer with a static CA.  *)
IsSingle == ServerAuthOf.tag = "Single"
IsStaticCA ==
  ServerAuthOf.tag = "CertIssuer" /\ ServerAuthOf.data.kind.tag = "Single"
(* Every byte string of the list parses.                                   *)
AllParse(items) == \A i \in 1..Len(items) : IsSome(items[i])
Values(items) == [i \in 1..Len(items) |-> Unwrap(items[i])]

(* C11: a Single (static) server auth whose private key is not the key of  *)
(* the first certificate of its chain is refused by try_from: it returns   *)
(* an error and builds no certificate source.                              *)
C11_MismatchRefused ==
  (/\ Translated
   /\ IsSingle
   /\ LET chain == ServerAuthOf.data.cert_chain.items
          keys == ServerAuthOf.data.private_key.items
      IN  /\ Len(chain) >= 1 /\ IsSome(chain[1])
          /\ Len(keys) >= 1 /\ IsSome(keys[1])
          /\ Unwrap(chain[1]).pubkey # Unwrap(keys[1]))
  => Refused

(* C12: issue_certs on a static source makes no certificate and hands out  *)
(* the same key and chain whatever the server name: the first certificate  *)
(* of the stored chain as the leaf, the others as extra chain certificates *)
(* in their stored order, the stored key as the key.                       *)
C12_StaticSameForAll ==
  /\ ~IsIssuer => (rng = 0 /\ cert_cache = << >> /\ gens = << >>)
  /\ \A t \in Tasks :
       (~IsIssuer /\ Done(t) /\ result[t].ok)
       => /\ Builder(t).cert = Some(kind.cert_chain[1])
          /\ Builder(t).chain = SubSeq(kind.cert_chain, 2, Len(kind.cert_chain))
          /\ Builder(t).key = Some(kind.private_key)
          /\ \A u \in Tasks :
               (Done(u) /\ result[u].ok) => result[u] = result[t]

C12_Witness ==
  \E t, u \in Tasks :
    /\ ~IsIssuer
    /\ Len(kind.cert_chain) = 3
    /\ Done(t) /\ result[t].ok /\ ~Sni(t)
    /\ Done(u) /\ result[u].ok /\ Sni(u)
    /\ Builder(u).chain = <<kind.cert_chain[2], kind.cert_chain[3]>>

(* C13: every issue_certs of an issuing source that returns Ok, from the   *)
(* cache or newly generated, with or without a server name, has set the    *)
(* chain [issued leaf, CA certificate]: the issued leaf as the             *)
(* certificate, the CA certificate as the one extra chain certificate, and *)
(* the leaf's own private key as the key.                                  *)
C13_IssuedChain ==
  \A t \in Tasks :
    (IsIssuer /\ Done(t) /\ result[t].ok)
    => /\ IsSome(got[t])
       /\ IsSome(Unwrap(got[t]).issued)
       /\ LET b == Builder(t)
              issued_cert == Unwrap(Unwrap(got[t]).issued)
          IN  /\ <<Unwrap(b.cert)>> \o b.chain = <<issued_cert.cert, kind.ca_cert>>
              /\ b.key = Some(issued_cert.key)
              /\ issued_cert.cert.pubkey = issued_cert.key
              /\ ~issued_cert.cert.is_ca

C13_Witness ==
  \E t, u \in Tasks :
    /\ IsIssuer
    /\ Done(t) /\ result[t].ok /\ ~Sni(t)
    /\ Done(u) /\ result[u].ok /\ Sni(u) /\ ~obs[u].generated
    /\ Builder(t).chain = <<kind.ca_cert>>
    /\ Builder(u).chain = <<kind.ca_cert>>
    /\ Builder(u).cert # Builder(t).cert

(* C14: client_verify_mode Auto and Disable give no client trust chain;    *)
(* ClientAuth gives, for each encoding, the non-empty list of the decoded  *)
(* certificates in their order, and data that holds no certificate makes   *)
(* try_from return an error.                                               *)
C14_ClientChain ==
  Translated =>
    /\ (ClientModeOf.tag \in {"Auto", "Disable"} /\ Accepted)
       => config.client_cert_chain = None
    /\ (ClientModeOf.tag = "ClientAuth" /\ Accepted)
       => /\ AllParse(ClientModeOf.data.items)
          /\ config.client_cert_chain = Some(Values(ClientModeOf.data.items))
          /\ Len(Unwrap(config.client_cert_chain)) >= 1
    /\ (ClientModeOf.tag = "ClientAuth" /\ ClientModeOf.data.items = << >>)
       => Refused

(* C15: a Single (static) server auth whose chain holds no certificate, or *)
(* whose private key is an empty DER stack, is refused by try_from; no     *)
(* static source with an empty chain is ever built from it.                *)
C15_EmptyStaticRefused ==
  (Translated /\ IsSingle)
  => /\ ServerAuthOf.data.cert_chain.items = << >> => Refused
     /\ (/\ ServerAuthOf.data.private_key.enc = "DerStack"
         /\ ServerAuthOf.data.private_key.items = << >>) => Refused
     /\ Accepted => (kind.kind = "InMemory" /\ Len(kind.cert_chain) >= 1)

(* C16: for a certificate issuer with a static CA, the CA certificate is   *)
(* the last certificate of the decoded chain, the CA key is the decoded    *)
(* private key (of a DER stack, its first element), and try_from fails     *)
(* when the decoded chain is empty.                                        *)
C16_StaticCA ==
  (Translated /\ IsStaticCA)
  => LET chain == ServerAuthOf.data.kind.data.cert_chain.items
         keys == ServerAuthOf.data.kind.data.private_key.items
     IN  /\ chain = << >> => Refused
         /\ Accepted
            => /\ AllParse(chain)
               /\ kind.kind = "InMemoryIssuer"
               /\ kind.ca_cert = Unwrap(chain[Len(chain)])
               /\ Len(keys) >= 1
               /\ kind.ca_key = Unwrap(keys[1])

C16_Witness ==
  /\ Accepted
  /\ IsStaticCA
  /\ ServerAuthOf.data.kind.data.cert_chain = DerStack(<<Some(StaticLeaf), Some(StaticInter)>>)
  /\ ServerAuthOf.data.kind.data.private_key = DerStack(<<Some(2002), Some(2001)>>)
  /\ kind = InMemoryIssuer(2002, StaticInter)

(* C17: no issue_certs step changes the acceptor configuration, the CA key *)
(* and certificate of an issuing source or the key and chain of a static   *)
(* source; the cache alone changes, and every leaf it comes to hold is     *)
(* issued under the CA the source was built with.                          *)
C17_SourceImmutable ==
  [][/\ kind' = kind
     /\ config' = config
     /\ max_capacity' = max_capacity
     /\ time_to_live' = time_to_live
     /\ IsIssuer
        => \A h \in DOMAIN cert_cache' :
             cert_cache'[h].cert.issuer = Subject(kind.ca_cert)]_vars

C17_Witness ==
  /\ kind = InMemoryIssuer(CaKey, CaCert)
  /\ calls = MaxCalls
  /\ \E h \in DOMAIN cert_cache :
       /\ cert_cache[h].cert.issuer = Subject(CaCert)
       /\ cert_cache[h].cert.cn = h
  /\ \E t \in Tasks : Done(t) /\ result[t].ok /\ Builder(t).chain = <<CaCert>>

(* C18: a cache fill that has begun is never abandoned: the call that runs *)
(* it goes on to its end, with the outcome of the generation in hand, and  *)
(* every call waiting on the fill is handed that outcome and ends too.     *)
C18_FillCompletes ==
  \A t \in Tasks :
    (pc[t] \in {"generating", "waiting"})
      ~> (Done(t) /\ IsSome(got[t]) /\ IsSome(result[t].err) # result[t].ok)

C18_Witness ==
  \E t, u \in Tasks :
    /\ t # u
    /\ Done(t) /\ obs[t].generated /\ obs[t].fill # 0
    /\ Done(u) /\ ~obs[u].generated /\ obs[u].fill = obs[t].fill
    /\ got[u] = got[t]
    /\ result[u].ok

(* C19: once the key check has failed for a leaf an issuing source has     *)
(* just generated, the source issues no more: no call made after that      *)
(* starts a generation or returns Ok.                                      *)
C19_IssuanceDisabled ==
  [][(/\ IsIssuer
      /\ \E t \in Tasks :
           /\ Done(t)
           /\ obs[t].generated
           /\ result[t].err = Some("check_private_key"))
     => \A u \in Tasks :
          pc[u] = "idle"
          => /\ pc'[u] \notin {"generating", "issuing"}
             /\ ~(pc'[u] = "done" /\ result'[u].ok)]_vars

(* C20: the cache of an issuing source is built with a time to live of 89  *)
(* days and with the configured max_cache_size as its capacity, 8096 when  *)
(* that is 0; the capacity is never 0.                                     *)
C20_CacheParameters ==
  (Accepted /\ ServerAuthOf.tag = "CertIssuer")
  => /\ time_to_live = 89 * 24 * 60 * 60
     /\ max_capacity =
          IF ServerAuthOf.data.max_cache_size = 0 THEN 8096
          ELSE ServerAuthOf.data.max_cache_size
     /\ max_capacity # 0

C20_Witness ==
  /\ Accepted
  /\ IsStaticCA
  /\ ServerAuthOf.data.max_cache_size = 0
  /\ max_capacity = 8096
  /\ time_to_live = 7689600

(* C21: try_from of a SelfSigned server auth generates a CA and then a     *)
(* leaf signed by that CA and builds a static source whose key is the      *)
(* leaf's key and whose chain is [leaf, CA]; when the CA generation fails  *)
(* no leaf is generated, and when either generation fails try_from returns *)
(* an error.                                                               *)
C21_SelfSigned ==
  (Translated /\ ServerAuthOf.tag = "SelfSigned" /\ ClientModeOf.tag = "Auto")
  => IF Accepted
     THEN /\ kind.kind = "InMemory"
          /\ Len(kind.cert_chain) = 2
          /\ rng = 2
          /\ LET leaf == kind.cert_chain[1]
                 ca == kind.cert_chain[2]
             IN  /\ ca.is_ca
                 /\ ca.issuer = Subject(ca)
                 /\ ca.signer = ca.pubkey
                 /\ ~leaf.is_ca
                 /\ leaf.issuer = Subject(ca)
                 /\ leaf.signer = ca.pubkey
                 /\ leaf.pubkey = kind.private_key
                 /\ leaf.pubkey # ca.pubkey
                 /\ ca.serial < leaf.serial
     ELSE /\ Refused
          /\ \/ /\ Unwrap(acceptor_data).err = Some("self-signed CA")
                /\ rng = 0
             \/ /\ Unwrap(acceptor_data).err =
                     Some("self-signed cert using self-signed CA")
                /\ rng = 1

C21_Witness ==
  /\ Accepted
  /\ ServerAuthOf.tag = "SelfSigned"
  /\ IsSome(ServerAuthOf.data.common_name)
  /\ Len(kind.cert_chain) = 2
  /\ kind.cert_chain[1].cn = Unwrap(ServerAuthOf.data.common_name)
  /\ kind.cert_chain[2].is_ca
  /\ kind.private_key = kind.cert_chain[1].pubkey

(* C22: every entry the cache holds under hostname h is a leaf generated   *)
(* for h: its common name is h, its subject alternative name is h's, its   *)
(* issuer is the subject of the source's CA and it is signed with the CA   *)
(* key; the key stored with it is the one generated with it, and no two    *)
(* entries hold the same key or serial.                                    *)
C22_CacheContent ==
  /\ \A h \in DOMAIN cert_cache :
       LET e == cert_cache[h]
       IN  /\ IsIssuer
           /\ h \in Hosts
           /\ e.cert.cn = h
           /\ e.cert.san = SanFor(h)
           /\ e.cert.issuer = Subject(kind.ca_cert)
           /\ e.cert.signer = kind.ca_key
           /\ ~e.cert.is_ca
           /\ e.cert.pubkey = e.key
           /\ e.cert.serial = e.key
           /\ e.key \in 1..rng
  /\ \A h1, h2 \in DOMAIN cert_cache :
       h1 # h2 => /\ cert_cache[h1].key # cert_cache[h2].key
                  /\ cert_cache[h1].cert.serial # cert_cache[h2].cert.serial

C22_Witness ==
  \E h1, h2 \in DOMAIN cert_cache :
    /\ h1.kind = "Name"
    /\ h2.kind = "Address"
    /\ cert_cache[h1].cert.cn = h1
    /\ cert_cache[h2].cert.cn = h2
    /\ cert_cache[h1].cert.san = Some([type |-> "DNS", id |-> h1.id])
    /\ cert_cache[h2].cert.san = Some([type |-> "IP", id |-> h2.id])
    /\ cert_cache[h1].key = cert_cache[h1].cert.pubkey
    /\ cert_cache[h2].key = cert_cache[h2].cert.pubkey

(* The entries of c2 that c1 does not hold as they are.                    *)
NewEntries(c1, c2) ==
  {h \in DOMAIN c2 : h \notin DOMAIN c1 \/ c1[h] # c2[h]}

(* C23: an entry comes into the cache only by a generation that succeeded, *)
(* as the fill of its hostname.  When the generation run as the fill of h  *)
(* fails, the call returns an error, nothing is stored for h and the       *)
(* entries of the other hostnames stay as they are.                        *)
C23_FailedFill ==
  [][/\ \A h \in NewEntries(cert_cache, cert_cache') :
          \E t \in Tasks :
            /\ pc[t] = "generating"
            /\ pc'[t] = "done"
            /\ server_name[t] = Some(h)
            /\ rng' = rng + 1
            /\ got'[t] = Some(IssuedOf(cert_cache'[h]))
     /\ \A t \in Tasks :
          (/\ pc[t] = "generating"
           /\ pc'[t] = "done"
           /\ IsSome(Unwrap(got'[t]).err))
          => /\ ~result'[t].ok
             /\ IsSome(result'[t].err)
             /\ cert_cache' = cert_cache
             /\ ~Live(cert_cache', Host(t), now')
             /\ write_op_ch' = write_op_ch]_vars

C23_Witness ==
  \E t \in Tasks, h2 \in DOMAIN cert_cache :
    /\ Done(t)
    /\ Sni(t)
    /\ obs[t].generated
    /\ IsSome(Unwrap(got[t]).err)
    /\ ~result[t].ok
    /\ h2 # Host(t)
    /\ Host(t) \notin DOMAIN cert_cache

====
